---------------------------- MODULE Spec2Model ----------------------------
(***************************************************************************)
(* A model of extract_rbc_activity.py: the line scanner that walks the     *)
(* text of a statement page by page, tracks section and fund, and builds   *)
(* transaction records, and the batch loop that runs it over a directory.  *)
(*                                                                         *)
(* Text is modelled by TLA+ strings: Len, SubSeq and \o act on them, so    *)
(* the regular expressions and string methods of the source are operators  *)
(* over characters.  Python's None is the empty tuple, a value x that may  *)
(* be None is the one-element tuple <<x>>.  A float is held as the decimal *)
(* text Python prints for it ("2,345.15" becomes "2345.15").               *)
(***************************************************************************)
EXTENDS Integers, Sequences, FiniteSets, TLC

VARIABLES
    ACTION_MAP,         \* module global: ordered <<key, action>> pairs
    vocab,              \* the lines the text extraction can return
    files,              \* directory entries not yet listed
    all_records,        \* main: records collected so far
    log,                \* main: one entry per document that raised
    history,            \* per finished document: name, outcome, its records
    csv,                \* main: rows written at the end (None: not written)
    pc,                 \* "main", "pages", "acct", "scan", "done"
    fname,              \* name of the document being processed
    page_number,        \* number of the current page (0 before the first)
    lines,              \* lines of the current page extracted and not yet scanned
    eof,                \* TRUE when the page has no further line
    nlines,             \* number of lines of the current page extracted so far
    acct_i,             \* extract_account_number: loop index (1-based)
    account_number,     \* None or <<digits>>
    in_section,
    section_type,       \* None, <<"mutual">> or <<"savings">>
    current_fund_code,
    current_fund_name,
    pending_return,     \* None or <<record>>
    records,            \* extract_from_pdf_text: records of this document
    line,               \* the stripped line of this page read last ("": none)
    rec,                \* what the record builder returned for it (None: not called)
    \* History variables: they record what happened and steer nothing.
    prev,               \* the scanner's locals before the line read last
                        \* (None: no line of this page has been read)
    carry,              \* the scanner's locals when the previous page ended
                        \* (None on the first page)
    hdr_fund,           \* the fund-header line read last since the section was
                        \* entered ("": none)
    hdr_any,            \* the fund-header or savings-deposit-header line read
                        \* last since the section was entered ("": none)
    stale               \* fund codes that were current when a footer was read
                        \* and have not been set by a fund header since

config == <<ACTION_MAP, vocab>>
batch == <<files, all_records, log, history, csv>>
reader == <<fname, page_number, lines, eof, nlines, acct_i, account_number>>
scanner == <<in_section, section_type, current_fund_code, current_fund_name,
             pending_return, records>>
ghosts == <<prev, carry, hdr_fund, hdr_any, stale>>
vars == <<config, batch, pc, reader, scanner, line, rec, ghosts>>

None == <<>>
Some(x) == <<x>>

---------------------------------------------------------------------------
(* Bounds of the model. *)
MaxFirstPage == 3   \* lines of the first page of a document
MaxLines == 5       \* lines of each later page
MaxPages == 2       \* pages per document
MaxRecords == 2     \* records per document
MaxTokens == 3      \* tokens of a string handed to a function on its own

---------------------------------------------------------------------------
(* Python string methods. *)

Ch(s, i) == SubSeq(s, i, i)

DigitChars == {"0", "1", "2", "3", "4", "5", "6", "7", "8", "9"}
DigitVal ==
    ("0" :> 0 @@ "1" :> 1 @@ "2" :> 2 @@ "3" :> 3 @@ "4" :> 4 @@
     "5" :> 5 @@ "6" :> 6 @@ "7" :> 7 @@ "8" :> 8 @@ "9" :> 9)
Digits == "0123456789"
ToLower ==
    ("A" :> "a" @@ "B" :> "b" @@ "C" :> "c" @@ "D" :> "d" @@ "E" :> "e" @@
     "F" :> "f" @@ "G" :> "g" @@ "H" :> "h" @@ "I" :> "i" @@ "J" :> "j" @@
     "K" :> "k" @@ "L" :> "l" @@ "M" :> "m" @@ "N" :> "n" @@ "O" :> "o" @@
     "P" :> "p" @@ "Q" :> "q" @@ "R" :> "r" @@ "S" :> "s" @@ "T" :> "t" @@
     "U" :> "u" @@ "V" :> "v" @@ "W" :> "w" @@ "X" :> "x" @@ "Y" :> "y" @@
     "Z" :> "z")
UpperChars == DOMAIN ToLower
LowerChars == {ToLower[c] : c \in DOMAIN ToLower}

IsDigit(c) == c \in DigitChars
IsAlpha(c) == c \in UpperChars \/ c \in LowerChars
IsSpace(c) == c = " "
IsWord(c) == IsAlpha(c) \/ IsDigit(c) \/ c = "_"

AllDigits(s) == \A i \in 1..Len(s) : IsDigit(Ch(s, i))
AllAlpha(s) == \A i \in 1..Len(s) : IsAlpha(Ch(s, i))

\* The first position of character c in s, 0 when it is not there.
IndexIn(c, s) ==
    IF \E i \in 1..Len(s) : Ch(s, i) = c
    THEN CHOOSE i \in 1..Len(s) : Ch(s, i) = c /\ \A j \in 1..(i - 1) : Ch(s, j) # c
    ELSE 0

StartsWith(s, p) == Len(p) <= Len(s) /\ SubSeq(s, 1, Len(p)) = p
EndsWith(s, p) == Len(p) <= Len(s) /\ SubSeq(s, Len(s) - Len(p) + 1, Len(s)) = p

Contains(s, sub) ==
    \E i \in 0..(Len(s) - Len(sub)) : SubSeq(s, i + 1, i + Len(sub)) = sub

RECURSIVE LStripChars(_, _)
LStripChars(s, cs) ==
    IF s # "" /\ Contains(cs, Ch(s, 1))
    THEN LStripChars(SubSeq(s, 2, Len(s)), cs)
    ELSE s

RECURSIVE RStripChars(_, _)
RStripChars(s, cs) ==
    IF s # "" /\ Contains(cs, Ch(s, Len(s)))
    THEN RStripChars(SubSeq(s, 1, Len(s) - 1), cs)
    ELSE s

StripChars(s, cs) == RStripChars(LStripChars(s, cs), cs)
Strip(s) == StripChars(s, " ")

LowerChar(c) == IF c \in UpperChars THEN ToLower[c] ELSE c

RECURSIVE Lower(_)
Lower(s) ==
    IF s = "" THEN "" ELSE LowerChar(Ch(s, 1)) \o Lower(SubSeq(s, 2, Len(s)))

\* str.replace(old, new): every non-overlapping occurrence, left to right; an
\* empty old matches before every character and at the end.
RECURSIVE Replace(_, _, _)
Replace(s, old, new) ==
    IF old = ""
    THEN IF s = "" THEN new
         ELSE new \o Ch(s, 1) \o Replace(SubSeq(s, 2, Len(s)), old, new)
    ELSE IF Len(s) < Len(old) THEN s
    ELSE IF StartsWith(s, old)
         THEN new \o Replace(SubSeq(s, Len(old) + 1, Len(s)), old, new)
         ELSE Ch(s, 1) \o Replace(SubSeq(s, 2, Len(s)), old, new)

\* The number of characters before the first space of t.
TokenEnd(t) ==
    IF \E i \in 1..Len(t) : IsSpace(Ch(t, i))
    THEN (CHOOSE i \in 1..Len(t) :
             IsSpace(Ch(t, i)) /\ \A j \in 1..(i - 1) : ~IsSpace(Ch(t, j))) - 1
    ELSE Len(t)

\* The number of digits s starts with.
LeadingDigits(s) ==
    IF \E i \in 1..Len(s) : ~IsDigit(Ch(s, i))
    THEN (CHOOSE i \in 1..Len(s) :
             ~IsDigit(Ch(s, i)) /\ \A j \in 1..(i - 1) : IsDigit(Ch(s, j))) - 1
    ELSE Len(s)

\* str.split(): the maximal runs of non-space characters.
RECURSIVE Split(_)
CutToken(t, n) == <<SubSeq(t, 1, n)>> \o Split(SubSeq(t, n + 1, Len(t)))
SplitStripped(t) == IF t = "" THEN <<>> ELSE CutToken(t, TokenEnd(t))
Split(s) == SplitStripped(LStripChars(s, " "))

RECURSIVE Join(_, _)
Join(toks, sep) ==
    IF toks = <<>> THEN ""
    ELSE IF Len(toks) = 1 THEN toks[1]
    ELSE toks[1] \o sep \o Join(Tail(toks), sep)

RECURSIVE StrToNat(_)
StrToNat(s) ==
    IF s = "" THEN 0
    ELSE 10 * StrToNat(SubSeq(s, 1, Len(s) - 1)) + DigitVal[Ch(s, Len(s))]

RECURSIVE NatToStr(_)
NatToStr(n) ==
    IF n < 10 THEN Ch(Digits, n + 1)
    ELSE NatToStr(n \div 10) \o Ch(Digits, (n % 10) + 1)

RECURSIVE ZeroPad(_, _)
ZeroPad(s, w) == IF Len(s) >= w THEN s ELSE ZeroPad("0" \o s, w)

---------------------------------------------------------------------------
(* Configuration read from config.ini when the module is loaded.  The file *)
(* is not part of the repository: these are the values of one deployment.  *)

ACCOUNT_MAP == ("123456" :> "Assets:RESP")
REINVEST_TRANSFER_ACCOUNT == "Income:Dividends"
CASH_SUFFIX == "Cash"
RESP_GRANT == "Income:Grants"

DefaultActions ==
    << <<"Contribution", "Buy">>, <<"IncomeReinvested", "Reinvest">>,
       <<"Grant", "Buy">>, <<"Withdrawal", "Sell">> >>

---------------------------------------------------------------------------
(* Token classification. *)

\* DATE_TOKEN_RE: ^[A-Za-z]{3}\d{1,2}\d{4}$
DATE_TOKEN_RE(tok) ==
    /\ Len(tok) \in {8, 9}
    /\ AllAlpha(SubSeq(tok, 1, 3))
    /\ AllDigits(SubSeq(tok, 4, Len(tok)))

\* [\d,]+
DigitsAndCommas(s) == s # "" /\ \A i \in 1..Len(s) : IsDigit(Ch(s, i)) \/ Ch(s, i) = ","

\* NUM_RE: ^[\d,]+(\.\d+)?$, dot being the place of the first "." of p.
NumParts(p, dot) ==
    IF dot = 0 THEN DigitsAndCommas(p)
    ELSE /\ DigitsAndCommas(SubSeq(p, 1, dot - 1))
         /\ dot < Len(p)
         /\ AllDigits(SubSeq(p, dot + 1, Len(p)))

NUM_RE(p) == NumParts(p, IndexIn(".", p))

OrZero(s) == IF s = "" THEN "0" ELSE s

FloatDigits(sign, ip, fp) ==
    IF AllDigits(ip) /\ AllDigits(fp) /\ ip \o fp # ""
    THEN Some(sign \o OrZero(LStripChars(ip, "0")) \o "." \o OrZero(RStripChars(fp, "0")))
    ELSE None

FloatDecimal(sign, body, dot) ==
    FloatDigits(sign,
                IF dot = 0 THEN body ELSE SubSeq(body, 1, dot - 1),
                IF dot = 0 THEN "" ELSE SubSeq(body, dot + 1, Len(body)))

FloatWord(sign, body, word) ==
    IF word \in {"inf", "infinity"} THEN Some(sign \o "inf")
    ELSE IF word = "nan" THEN Some("nan")
    ELSE FloatDecimal(sign, body, IndexIn(".", body))

FloatSigned(t) ==
    FloatWord(IF StartsWith(t, "-") THEN "-" ELSE "",
              IF StartsWith(t, "-") \/ StartsWith(t, "+") THEN SubSeq(t, 2, Len(t)) ELSE t,
              Lower(IF StartsWith(t, "-") \/ StartsWith(t, "+") THEN SubSeq(t, 2, Len(t)) ELSE t))

\* float(s) for the decimal forms [+-]digits[.digits], [+-].digits and the
\* words inf, infinity and nan; the result is the text Python prints for the
\* float.  Exponent forms and digit-group underscores are outside the input
\* alphabet of the model.  None stands for ValueError.
FloatOf(s) == FloatSigned(Strip(s))

FloatOrText(f, q) == IF f # None THEN f[1] ELSE q
NumberOrText(q) == FloatOrText(FloatOf(Replace(q, ",", "")), q)

to_number(s) ==
    IF s = "" THEN ""
    ELSE NumberOrText(StripChars(StripChars(Strip(s), "\""), "'"))

---------------------------------------------------------------------------
(* Dates. *)

MonthAbbr ==
    <<"jan", "feb", "mar", "apr", "may", "jun",
      "jul", "aug", "sep", "oct", "nov", "dec">>

MonthIndex(m) ==
    IF \E i \in 1..12 : MonthAbbr[i] = m
    THEN CHOOSE i \in 1..12 : MonthAbbr[i] = m
    ELSE 0

IsLeap(y) == (y % 4 = 0 /\ y % 100 # 0) \/ y % 400 = 0

DaysInMonth(y, m) ==
    IF m = 2 THEN (IF IsLeap(y) THEN 29 ELSE 28)
    ELSE IF m \in {4, 6, 9, 11} THEN 30 ELSE 31

MakeDate(m, day, year, d, y) ==
    IF /\ m > 0
       /\ Len(day) \in {1, 2} /\ d >= 1
       /\ Len(year) = 4 /\ y >= 1
       /\ d <= DaysInMonth(y, m)
    THEN Some([year |-> y, month |-> m, day |-> d])
    ELSE None

\* A %b that would match the abbreviations as the locale writes them only.
StrptimeExactCase(month, day, year) ==
    MakeDate(IF Ch(month, 1) \in UpperChars /\ SubSeq(month, 2, 3) = Lower(SubSeq(month, 2, 3))
             THEN MonthIndex(Lower(month)) ELSE 0,
             day, year, StrToNat(day), StrToNat(year))

\* datetime.strptime(f"{month} {day} {year}", "%b %d %Y") for a month of
\* letters and a day and year of digits: %b matches a month abbreviation in
\* any letter case, %d one or two digits that make 1..31, %Y four digits; the
\* date must exist (years start at 1).  None stands for ValueError.
Strptime(month, day, year) ==
    MakeDate(MonthIndex(Lower(month)), day, year, StrToNat(day), StrToNat(year))

\* strftime("%Y-%m-%d"), the year written with four digits.
Strftime(dt) ==
    ZeroPad(NatToStr(dt.year), 4) \o "-" \o ZeroPad(NatToStr(dt.month), 2)
        \o "-" \o ZeroPad(NatToStr(dt.day), 2)

FormatOrToken(parsed_date, tok) ==
    IF parsed_date # None THEN Strftime(parsed_date[1]) ELSE tok

\* Called on tokens that match DATE_TOKEN_RE.
format_date_token(tok) ==
    FormatOrToken(Strptime(SubSeq(tok, 1, 3), SubSeq(tok, 4, Len(tok) - 4),
                           SubSeq(tok, Len(tok) - 3, Len(tok))),
                  tok)

NoDate == [date |-> None, rest |-> None]

ThreePartResult(parsed_date, rest) ==
    IF parsed_date = None THEN NoDate
    ELSE [date |-> Some(Strftime(parsed_date[1])), rest |-> Some(rest)]

\* b2: the line from the year on.  (?P<year>\d{4})\s+(?P<rest>.+)$
MatchYear(month, day, b2) ==
    IF LeadingDigits(b2) = 4 /\ Len(b2) >= 6 /\ Ch(b2, 5) = " "
    THEN ThreePartResult(Strptime(month, day, SubSeq(b2, 1, 4)),
                         Strip(SubSeq(b2, 5, Len(b2))))
    ELSE NoDate

\* b1: the line from the day on, nd the digits it starts with.  (?P<day>\d{1,2})\s+
MatchDay(month, b1, nd) ==
    IF nd \in {1, 2} /\ nd < Len(b1) /\ Ch(b1, nd + 1) = " "
    THEN MatchYear(month, SubSeq(b1, 1, nd), LStripChars(SubSeq(b1, nd + 1, Len(b1)), " "))
    ELSE NoDate

MatchMonth(month, b1) == MatchDay(month, b1, LeadingDigits(b1))

\* ^(?P<month>[A-Za-z]{3})\s+(?P<day>\d{1,2})\s+(?P<year>\d{4})\s+(?P<rest>.+)$
\* Returns [date, rest], both None when the line does not match or the date
\* does not exist.
parse_line_with_three_part_date(ln) ==
    IF Len(ln) >= 4 /\ AllAlpha(SubSeq(ln, 1, 3)) /\ Ch(ln, 4) = " "
    THEN MatchMonth(SubSeq(ln, 1, 3), LStripChars(SubSeq(ln, 4, Len(ln)), " "))
    ELSE NoDate

DateAndRest(tokens, ln) ==
    IF tokens # <<>> /\ DATE_TOKEN_RE(tokens[1])
    THEN [date |-> Some(format_date_token(tokens[1])),
          rest |-> Some(Join(Tail(tokens), " "))]
    ELSE parse_line_with_three_part_date(ln)

extract_date_and_rest(ln) == DateAndRest(Split(ln), ln)

---------------------------------------------------------------------------
(* Line segmentation and action lookup. *)

IsNumberToken(p) == NUM_RE(p) \/ (StartsWith(p, "-") /\ NUM_RE(SubSeq(p, 2, Len(p))))

\* The index of the first number token of parts, Len(parts) + 1 without one.
FirstNumber(parts) ==
    IF \E i \in 1..Len(parts) : IsNumberToken(parts[i])
    THEN CHOOSE i \in 1..Len(parts) :
             IsNumberToken(parts[i]) /\ \A j \in 1..(i - 1) : ~IsNumberToken(parts[j])
    ELSE Len(parts) + 1

\* A faulty variant of SplitAt: only tokens shaped as numbers are numbers.
SplitAtShapedOnly(parts, first) ==
    [description |-> Join(SubSeq(parts, 1, first - 1), " "),
     nums |-> SelectSeq(SubSeq(parts, first, Len(parts)), IsNumberToken)]

SplitAt(parts, first) ==
    [description |-> Join(SubSeq(parts, 1, first - 1), " "),
     nums |-> SubSeq(parts, first, Len(parts))]

SplitParts(parts) == SplitAt(parts, FirstNumber(parts))

\* Returns [description, nums].
split_description_and_numbers(s) == SplitParts(Split(s))

Normalize(k) == Lower(Replace(Replace(k, " ", ""), "-", ""))

\* A faulty variant of FirstAction: the key configured last wins.
LastAction(hits) ==
    IF hits = {} THEN ""
    ELSE ACTION_MAP[CHOOSE i \in hits : \A j \in hits : i >= j][2]

FirstAction(hits) ==
    IF hits = {} THEN ""
    ELSE ACTION_MAP[CHOOSE i \in hits : \A j \in hits : i <= j][2]

MatchNormalized(k_norm) ==
    FirstAction({i \in 1..Len(ACTION_MAP) : Contains(k_norm, Normalize(ACTION_MAP[i][1]))})

match_action(kind) == MatchNormalized(Normalize(kind))

---------------------------------------------------------------------------
(* Record builders.  A call either returns a value (None or <<record>>) or *)
(* raises: [exc |-> name of the exception or "", val |-> the value].       *)

Return(v) == [exc |-> "", val |-> v]
Raise(e) == [exc |-> e, val |-> None]

Truthy(opt) == opt # None /\ opt[1] # ""

\* any(key in rest for key in ACTION_MAP.keys())
ActionGate(rest) == \E i \in 1..Len(ACTION_MAP) : Contains(rest, ACTION_MAP[i][1])

HasAlias(acct) == acct # None /\ acct[1] \in DOMAIN ACCOUNT_MAP

\* A faulty variant of TransferAccount: the reinvestment is not told apart.
TransferAlwaysCash(action, acct) == ACCOUNT_MAP[acct[1]] \o ":" \o CASH_SUFFIX

TransferAccount(action, acct) ==
    IF action = "Reinvest" THEN REINVEST_TRANSFER_ACCOUNT
    ELSE ACCOUNT_MAP[acct[1]] \o ":" \o CASH_SUFFIX

\* Lines 193-217, n being len(nums).
ActivityRecord(date_disp, action, dn, n, fund_code, fund_name, source_file, acct) ==
    IF n = 0 THEN Return(None)
    ELSE IF n < 5 THEN Return(None)
    ELSE IF ~HasAlias(acct) THEN Raise("KeyError")
    ELSE Return(Some(
           "Date" :> date_disp
        @@ "Description" :> (dn.description \o " src = " \o source_file)
        @@ "Action" :> action
        @@ "Value" :> to_number(dn.nums[n - 4])
        @@ "Price" :> to_number(dn.nums[n - 3])
        @@ "Amount" :> to_number(dn.nums[n - 2])
        @@ "Account" :> (ACCOUNT_MAP[acct[1]] \o ":" \o fund_code)
        @@ "Trancfer Account" :> TransferAccount(action, acct)
        @@ "Units you own (post)" :> dn.nums[n - 1]
        @@ "Total value ($)" :> dn.nums[n]
        @@ "Fund code" :> fund_code
        @@ "Fund name" :> fund_name))

ActivityNums(date_disp, action, dn, fund_code, fund_name, source_file, acct) ==
    ActivityRecord(date_disp, action, dn, Len(dn.nums),
                   fund_code, fund_name, source_file, acct)

\* Lines 189-192, dr being what extract_date_and_rest returned.
ActivityGate(dr, fund_code, fund_name, source_file, acct) ==
    IF Truthy(dr.date) /\ Truthy(dr.rest) /\ ActionGate(dr.rest[1])
    THEN ActivityNums(dr.date[1], match_action(Split(dr.rest[1])[1]),
                      split_description_and_numbers(dr.rest[1]),
                      fund_code, fund_name, source_file, acct)
    ELSE Return(None)

parse_activity_line(ln, fund_code, fund_name, source_file, acct) ==
    ActivityGate(extract_date_and_rest(ln), fund_code, fund_name, source_file, acct)

\* Lines 245-267, n being len(nums).
SavingsRecord(date_disp, action, dn, n, fund_name, source_file, acct) ==
    IF n = 0 THEN Return(None)
    ELSE IF n < 2 THEN Return(None)
    ELSE IF ~HasAlias(acct) THEN Raise("KeyError")
    ELSE Return(Some(
           "Date" :> date_disp
        @@ "Description" :> (dn.description \o " src = " \o source_file)
        @@ "Action" :> action
        @@ "Value" :> to_number(dn.nums[n - 1])
        @@ "Price" :> ""
        @@ "Amount" :> ""
        @@ "Account" :> (ACCOUNT_MAP[acct[1]] \o ":SavingsDeposit")
        @@ "Trancfer Account" :> TransferAccount(action, acct)
        @@ "Units you own (post)" :> ""
        @@ "Total value ($)" :> to_number(dn.nums[n])
        @@ "Fund code" :> ""
        @@ "Fund name" :> fund_name))

SavingsNums(date_disp, action, dn, fund_name, source_file, acct) ==
    SavingsRecord(date_disp, action, dn, Len(dn.nums), fund_name, source_file, acct)

\* Lines 241-243, dr being what extract_date_and_rest returned.
SavingsGate(dr, fund_name, source_file, acct) ==
    IF Truthy(dr.date) /\ Truthy(dr.rest) /\ ActionGate(dr.rest[1])
    THEN SavingsNums(dr.date[1], match_action(Split(dr.rest[1])[1]),
                     split_description_and_numbers(dr.rest[1]),
                     fund_name, source_file, acct)
    ELSE Return(None)

parse_savings_line(ln, fund_name, source_file, acct) ==
    SavingsGate(extract_date_and_rest(ln), fund_name, source_file, acct)

---------------------------------------------------------------------------
(* Account number. *)

AccountLabel == "Your account number"

\* A run of n digits starts at p, with no word character on either side.
DigitRunAt(s, p, n) ==
    /\ IsDigit(Ch(s, p))
    /\ (p = 1 \/ ~IsWord(Ch(s, p - 1)))
    /\ n \in 6..12
    /\ (p + n > Len(s) \/ ~IsWord(Ch(s, p + n)))

FirstRun(s, hits) ==
    IF hits = {} THEN 0 ELSE CHOOSE q \in hits : \A r \in hits : q <= r

RunText(s, p) ==
    IF p = 0 THEN None
    ELSE Some(SubSeq(s, p, p + LeadingDigits(SubSeq(s, p, Len(s))) - 1))

\* re.search(r"\b(\d{6,12})\b", s): the leftmost run of 6 to 12 digits with
\* no word character on either side; None when there is none.
SearchAccountDigits(s) ==
    RunText(s, FirstRun(s, {p \in 1..Len(s) :
                               DigitRunAt(s, p, LeadingDigits(SubSeq(s, p, Len(s))))}))

---------------------------------------------------------------------------
(* Line patterns of the scanner. *)

MutualMarker == "Your investment activity with Royal Mutual Funds Inc."
SavingsMarker == "Your savings deposit activity"
SavingsLabel == "RBC Savings Deposit"

IsFooter(ln) == StartsWith(ln, "Page") /\ Contains(ln, "of")

\* \((RBF\d{3})\)(?:\s*\(continued\))?$
HeaderCode(t) ==
    /\ Len(t) >= 8
    /\ SubSeq(t, 1, 4) = "(RBF"
    /\ AllDigits(SubSeq(t, 5, 7))
    /\ Ch(t, 8) = ")"
    /\ (Len(t) = 8 \/ LStripChars(SubSeq(t, 9, Len(t)), " ") = "(continued)")

\* \s*\((RBF\d{3})\)(?:\s*\(continued\))?$
HeaderTail(s) == HeaderCode(LStripChars(s, " "))

FirstSplit(ks) == IF ks = {} THEN 0 ELSE CHOOSE a \in ks : \A b \in ks : a <= b

HeaderGroups(ln, k) ==
    IF k = 0 THEN None
    ELSE Some([name |-> SubSeq(ln, 1, k),
               code |-> SubSeq(LStripChars(SubSeq(ln, k + 1, Len(ln)), " "), 2, 7)])

\* re.match(r"(.+?)\s*\((RBF\d{3})\)(?:\s*\(continued\))?$", ln): None, or
\* <<[name |-> group 1, code |-> group 2]>>; the lazy group 1 is the
\* shortest prefix after which the rest of the pattern matches.
FundHeaderMatch(ln) ==
    HeaderGroups(ln, FirstSplit({k \in 1..Len(ln) : HeaderTail(SubSeq(ln, k + 1, Len(ln)))}))

IsSavingsHeader(ln) == Contains(ln, "Savings Deposit") /\ Contains(ln, "RBC")

\* re.match(r"^\(([\d,]+\.\d+)\)$", ln): None or <<group 1>>.
PriceMatch(ln) ==
    IF /\ Len(ln) >= 2 /\ Ch(ln, 1) = "(" /\ Ch(ln, Len(ln)) = ")"
       /\ Contains(ln, ".") /\ NUM_RE(SubSeq(ln, 2, Len(ln) - 1))
    THEN Some(SubSeq(ln, 2, Len(ln) - 1)) ELSE None

---------------------------------------------------------------------------
(* The scan loop body of extract_from_pdf_text, as a function of the       *)
(* scanner's local variables and the stripped line.                        *)

Outside ==
    [in_section |-> FALSE, section_type |-> None,
     current_fund_code |-> "", current_fund_name |-> "", pending_return |-> None]

\* Faulty variants of the operators below: each property that is shown of
\* the scanner is also shown to fail of the variant named with it.
PageStartKeepsAll(st) == st

PageStartKeepsFund(st) ==
    [in_section |-> FALSE, section_type |-> None, pending_return |-> None] @@ st

FooterKeepsFund(st) ==
    [in_section |-> FALSE, section_type |-> None, pending_return |-> None] @@ st

EnterSavingsUnnamed(st) ==
    [st EXCEPT !.in_section = TRUE, !.section_type = Some("savings")]

\* Lines 304-308: the locals set at the start of every page.
PageStart(st) == Outside @@ st

\* Lines 333-339: the footer branch.
FooterReset(st) == Outside @@ st

EnterMutual(st) == [st EXCEPT !.in_section = TRUE, !.section_type = Some("mutual")]

EnterSavings(st) ==
    [st EXCEPT !.in_section = TRUE, !.section_type = Some("savings"),
               !.current_fund_name = SavingsLabel, !.current_fund_code = ""]

\* A faulty variant of SetFund: the code of the header is not taken.
SetFundNameOnly(st, m) == [st EXCEPT !.current_fund_name = Strip(m.name)]

SetFund(st, m) ==
    [st EXCEPT !.current_fund_name = Strip(m.name), !.current_fund_code = Strip(m.code)]

SetSavingsFund(st) ==
    [st EXCEPT !.current_fund_name = SavingsLabel, !.current_fund_code = ""]

CompletePending(st, price) ==
    [st EXCEPT !.records = Append(@, st.pending_return[1] @@ ("Unit price ($)" :> price)),
               !.pending_return = None]

IsGrant(r) == StartsWith(r["Description"], "Grant") \/ StartsWith(r["Description"], "PGQC")

rec_income(r) ==
       "Date" :> r["Date"]
    @@ "Description" :> r["Description"]
    @@ "Action" :> r["Action"]
    @@ "Value" :> r["Value"]
    @@ "Price" :> ""
    @@ "Amount" :> ""
    @@ "Account" :> Replace(r["Account"], r["Fund code"], CASH_SUFFIX)
    @@ "Trancfer Account" :> RESP_GRANT
    @@ "Units you own (post)" :> ""
    @@ "Total value ($)" :> ""
    @@ "Fund code" :> ""
    @@ "Fund name" :> ""

\* A faulty variant of MutualResult: a return-of-capital row is held in the
\* pending slot until its unit price is read.
MutualResultHoldsCapital(st, r) ==
    IF r.exc # "" THEN [st EXCEPT !.exc = r.exc]
    ELSE IF r.val = None THEN st
    ELSE IF StartsWith(r.val[1]["Description"], "ReturnofCapital")
    THEN [st EXCEPT !.pending_return = r.val]
    ELSE [st EXCEPT !.rec = r.val,
                    !.records = IF IsGrant(r.val[1])
                                THEN @ \o <<r.val[1], rec_income(r.val[1])>>
                                ELSE Append(@, r.val[1])]

\* Lines 372-389, r being what parse_activity_line did.
MutualResult(st, r) ==
    IF r.exc # "" THEN [st EXCEPT !.exc = r.exc]
    ELSE IF r.val = None THEN st
    ELSE [st EXCEPT !.rec = r.val,
                    !.records = IF IsGrant(r.val[1])
                                THEN @ \o <<r.val[1], rec_income(r.val[1])>>
                                ELSE Append(@, r.val[1])]

\* A mutual section that the savings marker would turn into the savings
\* section.
MutualRowSwitching(st, ln, source_file, acct) ==
    IF Contains(ln, SavingsMarker) THEN EnterSavings(st)
    ELSE MutualResult(st, parse_activity_line(ln, st.current_fund_code,
                                              st.current_fund_name, source_file, acct))

MutualRow(st, ln, source_file, acct) ==
    MutualResult(st, parse_activity_line(ln, st.current_fund_code, st.current_fund_name,
                                         source_file, acct))

\* Lines 398-399, r being what parse_savings_line did.
SavingsResult(st, r) ==
    IF r.exc # "" THEN [st EXCEPT !.exc = r.exc]
    ELSE IF r.val = None THEN st
    ELSE [st EXCEPT !.rec = r.val, !.records = Append(@, r.val[1])]

SavingsRow(st, ln, source_file, acct) ==
    SavingsResult(st, parse_savings_line(ln,
                          IF st.current_fund_name # "" THEN st.current_fund_name
                          ELSE SavingsLabel,
                          source_file, acct))

\* Lines 341-399, m_fund and m_price being the two matches of the line.
InSection(st, ln, m_fund, m_price, source_file, acct) ==
    IF m_fund # None THEN SetFund(st, m_fund[1])
    ELSE IF IsSavingsHeader(ln) THEN SetSavingsFund(st)
    ELSE IF m_price # None /\ st.pending_return # None
         THEN CompletePending(st, m_price[1])
    ELSE IF st.section_type = Some("mutual") THEN MutualRow(st, ln, source_file, acct)
    ELSE IF st.section_type = Some("savings") THEN SavingsRow(st, ln, source_file, acct)
    ELSE st

\* Lines 313-330: the line is read outside a section.
OutsideSection(st, ln) ==
    IF Contains(ln, MutualMarker) THEN EnterMutual(st)
    ELSE IF Contains(ln, SavingsMarker) THEN EnterSavings(st)
    ELSE st

\* st: the locals before the line, with rec = None and exc = "".
ScanStep(st, ln, source_file, acct) ==
    IF ~st.in_section THEN OutsideSection(st, ln)
    ELSE IF IsFooter(ln) THEN FooterReset(st)
    ELSE InSection(st, ln, FundHeaderMatch(ln), PriceMatch(ln), source_file, acct)

---------------------------------------------------------------------------
(* State machine. *)

Locals ==
    [in_section |-> in_section, section_type |-> section_type,
     current_fund_code |-> current_fund_code, current_fund_name |-> current_fund_name,
     pending_return |-> pending_return, records |-> records,
     rec |-> None, exc |-> ""]

SetScanner(st) ==
    /\ in_section' = st.in_section
    /\ section_type' = st.section_type
    /\ current_fund_code' = st.current_fund_code
    /\ current_fund_name' = st.current_fund_name
    /\ pending_return' = st.pending_return
    /\ records' = st.records

\* A faulty variant of DropLocals: the record list outlives the call, as a
\* list shared by all calls would.
DropLocalsKeepsRecords ==
    /\ fname' = "" /\ page_number' = 0 /\ lines' = <<>> /\ eof' = FALSE
    /\ nlines' = 0 /\ acct_i' = 0 /\ account_number' = None
    /\ in_section' = FALSE /\ section_type' = None
    /\ current_fund_code' = "" /\ current_fund_name' = ""
    /\ pending_return' = None /\ records' = records
    /\ line' = "" /\ rec' = None
    /\ prev' = None /\ carry' = None /\ hdr_fund' = "" /\ hdr_any' = "" /\ stale' = {}

\* The locals of extract_from_pdf_text are gone once it returns or raises.
DropLocals ==
    /\ fname' = "" /\ page_number' = 0 /\ lines' = <<>> /\ eof' = FALSE
    /\ nlines' = 0 /\ acct_i' = 0 /\ account_number' = None
    /\ SetScanner(Outside @@ [records |-> <<>>])
    /\ line' = "" /\ rec' = None
    /\ prev' = None /\ carry' = None /\ hdr_fund' = "" /\ hdr_any' = "" /\ stale' = {}

\* A faulty variant of Raised: the records built before the error are kept.
RaisedKeepsRecords(e, ln, recs) ==
    /\ log' = Append(log, [file |-> fname, error |-> e])
    /\ history' = Append(history, [file |-> fname, error |-> e, line |-> ln,
                                   section |-> section_type, recs |-> recs])
    /\ all_records' = all_records \o recs
    /\ pc' = "main"
    /\ UNCHANGED <<files, csv>>
    /\ DropLocals

\* main, lines 419-420: the call returned recs.
Returned(recs) ==
    /\ all_records' = all_records \o recs
    /\ history' = Append(history, [file |-> fname, error |-> "", line |-> "",
                                   section |-> section_type, recs |-> recs])
    /\ pc' = "main"
    /\ UNCHANGED <<files, log, csv>>
    /\ DropLocals

\* main, lines 421-422: the call raised e at line ln, having built recs so far.
Raised(e, ln, recs) ==
    /\ log' = Append(log, [file |-> fname, error |-> e])
    /\ history' = Append(history, [file |-> fname, error |-> e, line |-> ln,
                                   section |-> section_type, recs |-> recs])
    /\ pc' = "main"
    /\ UNCHANGED <<files, all_records, csv>>
    /\ DropLocals

\* main: one iteration of the loop over os.listdir, up to the call.
MainLoop ==
    /\ pc = "main"
    /\ \E f \in files :
        /\ files' = files \ {f}
        /\ IF EndsWith(Lower(f), ".pdf")
           THEN /\ fname' = f
                /\ pc' = "pages"
                /\ UNCHANGED <<page_number, lines, eof, nlines, acct_i, account_number>>
           ELSE UNCHANGED <<pc, reader>>
    /\ UNCHANGED <<config, all_records, log, history, csv, scanner, line, rec, ghosts>>

Columns ==
    {"Date", "Description", "Action", "Value", "Price", "Amount", "Account",
     "Trancfer Account", "Units you own (post)", "Total value ($)",
     "Fund code", "Fund name"}

\* main: after the loop.
Finish ==
    /\ pc = "main"
    /\ files = {}
    /\ csv' = IF all_records = <<>> THEN None
              ELSE Some([i \in 1..Len(all_records) |->
                            [c \in Columns |-> all_records[i][c]]])
    /\ pc' = "done"
    /\ UNCHANGED <<config, files, all_records, log, history, reader, scanner,
                   line, rec, ghosts>>

\* What the history keeps of a page when the next one starts.
PageEnd == [account_number |-> account_number] @@ Locals

PageLimit == IF page_number = 1 THEN MaxFirstPage ELSE MaxLines

\* What is known of the page once its line i is asked for: the line is there
\* already, or the extraction yields one more line, or the page has ended.
Known(i, ls, e, n) ==
    IF i <= Len(ls) \/ e THEN {[ls |-> ls, eof |-> e, n |-> n]}
    ELSE {[ls |-> Append(ls, l), eof |-> FALSE, n |-> n + 1] :
              l \in IF n < PageLimit THEN vocab ELSE {}}
         \cup {[ls |-> ls, eof |-> TRUE, n |-> n]}

\* Lines 301-308: the account number check and the locals of a page; c is
\* what the history keeps of the page before.
BeginScan(acct, c) ==
    IF acct = None
    THEN Raised("ValueError", "", records)
    ELSE /\ account_number' = acct
         /\ SetScanner(PageStart(Locals))
         /\ pc' = "scan"
         /\ prev' = None /\ carry' = c /\ hdr_fund' = "" /\ hdr_any' = ""
         /\ UNCHANGED <<batch, fname, line, rec, stale>>

\* for page in pdf.pages: the next page, the end of the document, or an
\* error raised by the text extraction.
PageLoop ==
    /\ pc = "pages"
    /\ \E outcome \in {"page", "end", "error"} :
        /\ outcome = "page" => page_number < MaxPages
        /\ IF outcome = "error" THEN Raised("PDFSyntaxError", "", records)
           ELSE IF outcome = "end" THEN Returned(records)
           ELSE IF page_number = 0
           THEN /\ page_number' = 1
                /\ lines' = <<>> /\ eof' = FALSE /\ nlines' = 0
                /\ acct_i' = 1
                /\ pc' = "acct"
                /\ UNCHANGED <<batch, fname, account_number, scanner, line, rec, ghosts>>
           ELSE /\ BeginScan(account_number, Some(PageEnd))
                /\ account_number # None =>
                     /\ page_number' = page_number + 1
                     /\ lines' = <<>> /\ eof' = FALSE /\ nlines' = 0
                     /\ UNCHANGED acct_i
    /\ UNCHANGED config

\* Lines 276-280: the line after the label, m what the search found in it.
AcctNext(k2, m) ==
    IF m # None
    THEN /\ BeginScan(m, None)
         /\ lines' = k2.ls /\ eof' = k2.eof /\ nlines' = k2.n
         /\ UNCHANGED <<acct_i, page_number>>
    ELSE /\ acct_i' = acct_i + 1
         /\ lines' = k2.ls /\ eof' = k2.eof /\ nlines' = k2.n
         /\ UNCHANGED <<batch, pc, fname, page_number, account_number, scanner,
                        line, rec, ghosts>>

\* extract_account_number: one iteration of its loop over the first page.
AcctLoop ==
    /\ pc = "acct"
    /\ \E k1 \in Known(acct_i, lines, eof, nlines) :
        IF acct_i > Len(k1.ls)
        THEN Raised("ValueError", "", records)
        ELSE IF Contains(k1.ls[acct_i], AccountLabel)
        THEN \E k2 \in Known(acct_i + 1, k1.ls, k1.eof, k1.n) :
               AcctNext(k2, IF acct_i + 1 <= Len(k2.ls)
                            THEN SearchAccountDigits(k2.ls[acct_i + 1]) ELSE None)
        ELSE /\ acct_i' = acct_i + 1
             /\ lines' = k1.ls /\ eof' = k1.eof /\ nlines' = k1.n
             /\ UNCHANGED <<batch, pc, fname, page_number, account_number, scanner,
                            line, rec, ghosts>>
    /\ UNCHANGED config

\* The history variables after line ln, m_fund being its fund-header match.
Remember(ln, m_fund) ==
    /\ prev' = Some(Locals)
    /\ hdr_fund' = IF ~in_section \/ IsFooter(ln) THEN ""
                   ELSE IF m_fund # None THEN ln ELSE hdr_fund
    /\ hdr_any' = IF ~in_section \/ IsFooter(ln) THEN ""
                  ELSE IF m_fund # None \/ IsSavingsHeader(ln) THEN ln ELSE hdr_any
    /\ stale' = IF ~in_section THEN stale
                ELSE IF IsFooter(ln) THEN stale \cup ({current_fund_code} \ {""})
                ELSE IF m_fund # None THEN stale \ {m_fund[1].code}
                ELSE stale
    /\ UNCHANGED carry

\* The loop body is done for line ln: st is what it made of the locals.
ScanDone(k, ln, st) ==
    /\ Len(st.records) <= MaxRecords
    /\ IF st.exc # ""
       THEN Raised(st.exc, ln, st.records)
       ELSE /\ lines' = Tail(k.ls) /\ eof' = k.eof /\ nlines' = k.n
            /\ line' = ln
            /\ rec' = st.rec
            /\ SetScanner(st)
            /\ Remember(ln, FundHeaderMatch(ln))
            /\ UNCHANGED <<batch, pc, fname, page_number, acct_i, account_number>>

ScanRead(k, ln) == ScanDone(k, ln, ScanStep(Locals, ln, fname, account_number))

\* for raw in lines: one iteration of the scan loop, or its end.
ScanLine ==
    /\ pc = "scan"
    /\ \E k \in Known(1, lines, eof, nlines) :
        IF k.ls = <<>>
        THEN /\ pc' = "pages"
             /\ lines' = <<>> /\ eof' = FALSE /\ nlines' = 0
             /\ line' = "" /\ rec' = None /\ prev' = None
             /\ UNCHANGED <<batch, fname, page_number, acct_i, account_number,
                            scanner, carry, hdr_fund, hdr_any, stale>>
        ELSE ScanRead(k, Strip(Head(k.ls)))
    /\ UNCHANGED config

Next == MainLoop \/ Finish \/ PageLoop \/ AcctLoop \/ ScanLine

---------------------------------------------------------------------------
(* Inputs. *)

AccountLine == "123456"
UnmappedLine == "7654321"
FundLine == "Bond Fund (RBF460)"
ContinuedLine == "Equity Fund (RBF111) (continued)"
SavingsHeaderLine == "RBC Savings Deposit"
FooterLine == "Page 1 of 2"
FooterFundLine == "Page 2 of 3 (RBF222)"
TxnLine == "Jan102025 Contribution 100.00 2.50 40.000 40.000 100.00"
GrantLine == "Feb032025 Grant 20.00 2.50 8.000 48.000 120.00"

ScanVocab ==
    { AccountLabel, AccountLine, MutualMarker, SavingsMarker, FundLine,
      ContinuedLine, SavingsHeaderLine, FooterLine, FooterFundLine, TxnLine,
      GrantLine }

InitAt(p, ln, am, v, fs) ==
    /\ ACTION_MAP = am
    /\ vocab = v
    /\ files = fs
    /\ all_records = <<>> /\ log = <<>> /\ history = <<>> /\ csv = None
    /\ pc = p
    /\ fname = "" /\ page_number = 0 /\ lines = <<>> /\ eof = FALSE
    /\ nlines = 0 /\ acct_i = 0 /\ account_number = None
    /\ in_section = FALSE /\ section_type = None
    /\ current_fund_code = "" /\ current_fund_name = ""
    /\ pending_return = None /\ records = <<>>
    /\ line = ln /\ rec = None
    /\ prev = None /\ carry = None /\ hdr_fund = "" /\ hdr_any = "" /\ stale = {}

InitAll(am, v, fs) == InitAt("main", "", am, v, fs)

InitWith(v, fs) == InitAll(DefaultActions, v, fs)

Init == InitWith(ScanVocab, {"a.pdf"})

Spec == Init /\ [][Next]_vars

\* A directory of two statements and a file that is none.
BatchFiles == {"a.pdf", "B.PDF", "notes.txt"}

BatchVocab == {AccountLabel, AccountLine, MutualMarker, TxnLine}

InitBatch == InitWith(BatchVocab, BatchFiles)

SpecBatch == InitBatch /\ [][Next]_vars

\* Transaction lines well and ill formed, in documents whose account number
\* is or is not in ACCOUNT_MAP.
BadDayLine == "Feb302025 Contribution 100.00 2.50 40.000 40.000 100.00"
BadMonthLine == "Xyz102025 Contribution 100.00 2.50 40.000 40.000 100.00"
FourNumberLine == "Jan102025 Contribution 100.00 2.50 40.000 40.000"
BareLine == "Jan102025 Contribution"

LineVocab ==
    { AccountLabel, AccountLine, UnmappedLine, MutualMarker, SavingsMarker,
      TxnLine, BadDayLine, BadMonthLine, FourNumberLine, BareLine }

InitLines == InitWith(LineVocab, {"a.pdf"})

SpecLines == InitLines /\ [][Next]_vars

\* The two functions of strings that the builders call, each called on its
\* own with strings of up to MaxTokens tokens and one of a few action
\* tables.
CallTokens ==
    {"Contribution", "Income-Reinvested", "reinvested", "200.00", "3,301.22",
     "-5", "1."}

CallInputs ==
    {Join(ts, " ") : ts \in UNION {[1..n -> CallTokens] : n \in 0..MaxTokens}}
        \cup {"  Contribution   200.00 ", "Income Reinvested"}

ActionTables ==
    { DefaultActions, <<>>,
      << <<"Income", "Dividend">>, <<"IncomeReinvested", "Reinvest">> >>,
      << <<"Income Re-invested", "Reinvest">>, <<"Income", "Dividend">> >> }

InitCalls ==
    \E am \in ActionTables, s \in CallInputs : InitAt("call", s, am, {}, {})

\* rest -> split_description_and_numbers(rest)
CallSplit ==
    /\ pc = "call"
    /\ rec' = Some(split_description_and_numbers(line))
    /\ pc' = "split"
    /\ UNCHANGED <<config, batch, reader, scanner, line, ghosts>>

\* kind -> match_action(kind)
CallMatch ==
    /\ pc = "call"
    /\ rec' = Some(match_action(line))
    /\ pc' = "match"
    /\ UNCHANGED <<config, batch, reader, scanner, line, ghosts>>

NextCalls == CallSplit \/ CallMatch

SpecCalls == InitCalls /\ [][NextCalls]_vars

\* The kinds of rows of the two tables: a contribution, a closing balance
\* with one number, a reinvestment, a return of capital and the unit price
\* on the line after it.  The action table knows the return of capital.
OneNumberLine == "Jun302022 Contribution 1,302.67"
ReinvestLine == "Mar032025 IncomeReinvested 5.00 2.50 2.000 50.000 125.00"
CapitalLine == "Mar312025 ReturnofCapital 1.87 0.0187 0.000 50.000 125.00"
PriceLine == "(0.0187000)"

CapitalActions == DefaultActions \o << <<"ReturnofCapital", "Sell">> >>

LowerMonthLine == "jan102025 Contribution 100.00 2.50 40.000 40.000 100.00"
UpperMonthLine == "JAN 10 2025 Contribution 100.00 2.50 40.000 40.000 100.00"
SecondWordLine == "Jan102025 Monthly Contribution 100.00 2.50 40.000 40.000 100.00"

KindVocab ==
    { AccountLabel, AccountLine, MutualMarker, SavingsMarker, TxnLine,
      OneNumberLine, ReinvestLine, CapitalLine, PriceLine, LowerMonthLine,
      UpperMonthLine, SecondWordLine }

InitKinds == InitAll(CapitalActions, KindVocab, {"a.pdf"})

SpecKinds == InitKinds /\ [][Next]_vars

---------------------------------------------------------------------------
(* Properties of the scanner. *)

IsOutside ==
    /\ ~in_section /\ section_type = None
    /\ current_fund_code = "" /\ current_fund_name = "" /\ pending_return = None

HasMarker(ln) == Contains(ln, MutualMarker) \/ Contains(ln, SavingsMarker)

\* The records appended by the line read last.
NewRecords == {records[i] : i \in Len(prev[1].records) + 1 .. Len(records)}

\* C1: a footer line read inside a section leaves the scanner OUTSIDE with
\* empty fund code and name and no pending record, and appends no record;
\* a line read outside a section appends no record and enters a section
\* only if it holds a section marker; and no record appended later carries
\* a fund code that was current at a footer, unless a fund header has set
\* that code again since.
FooterEndsSection ==
    prev # None =>
        /\ (prev[1].in_section /\ IsFooter(line)) =>
               IsOutside /\ records = prev[1].records /\ rec = None
        /\ ~prev[1].in_section =>
               /\ records = prev[1].records
               /\ in_section => HasMarker(line)
        /\ \A r \in NewRecords : r["Fund code"] \notin stale

\* A record is appended in a section entered after a footer that had ended
\* a section under a fund code.
FooterThenRecord == rec # None /\ stale # {}

\* C2, as stated: the section, the fund and the pending record survive the
\* start of a page; a page that follows a page ended inside a section
\* starts in that section under that fund, and a transaction line at its
\* top yields a record.
SectionSurvivesPage ==
    (pc = "scan" /\ carry # None /\ carry[1].in_section) =>
        /\ prev = None =>
               /\ in_section /\ section_type = carry[1].section_type
               /\ current_fund_code = carry[1].current_fund_code
               /\ current_fund_name = carry[1].current_fund_name
               /\ pending_return = carry[1].pending_return
        /\ (prev # None /\ nlines = 1 /\ line = TxnLine) => rec # None

\* C2, amended: the section, the fund and the pending record are reset at
\* the start of every page; a page that follows a page ended inside a
\* section starts OUTSIDE, and the line at its top yields no record; the
\* account number and the records built so far are what carries over.
PageResetsSection ==
    (pc = "scan" /\ carry # None /\ carry[1].in_section) =>
        /\ account_number = carry[1].account_number
        /\ prev = None => IsOutside /\ records = carry[1].records
        /\ (prev # None /\ nlines = 1) =>
               /\ rec = None /\ records = carry[1].records
               /\ current_fund_code = "" /\ pending_return = None
               /\ in_section => HasMarker(line)

\* A grant line is read at the top of a page that follows a page ended in a
\* section under a fund.
TopLineAfterSection ==
    /\ pc = "scan" /\ carry # None /\ carry[1].in_section
    /\ carry[1].current_fund_name # ""
    /\ prev # None /\ nlines = 1 /\ line = GrantLine

\* C3: when the scan of a page starts the scanner is OUTSIDE, whatever the
\* page before ended in, and a line read while no section has been entered
\* appends no record and leaves the scanner OUTSIDE unless it holds a
\* section marker.
PageStartsOutside ==
    pc = "scan" =>
        /\ prev = None =>
               /\ IsOutside
               /\ carry # None => records = carry[1].records
        /\ (prev # None /\ ~prev[1].in_section) =>
               /\ rec = None /\ records = prev[1].records
               /\ HasMarker(line) \/ IsOutside

\* The first line of a page is a transaction line, the page before having
\* ended inside a section.
TransactionAtPageTop ==
    /\ pc = "scan" /\ carry # None /\ carry[1].in_section
    /\ prev # None /\ nlines = 1 /\ line = TxnLine

\* C4: for a line read while OUTSIDE: the mutual marker enters the mutual
\* section; otherwise the savings marker enters the savings section with
\* fund name 'RBC Savings Deposit' and empty fund code; any other line
\* leaves section, fund code, fund name, pending slot and records as they
\* were.  No such line appends a record.
OutsideTransitions ==
    (prev # None /\ ~prev[1].in_section) =>
        /\ records = prev[1].records /\ rec = None
        /\ pending_return = prev[1].pending_return
        /\ IF Contains(line, MutualMarker)
           THEN /\ in_section /\ section_type = Some("mutual")
                /\ current_fund_code = prev[1].current_fund_code
                /\ current_fund_name = prev[1].current_fund_name
           ELSE IF Contains(line, SavingsMarker)
           THEN /\ in_section /\ section_type = Some("savings")
                /\ current_fund_name = "RBC Savings Deposit"
                /\ current_fund_code = ""
           ELSE /\ in_section = prev[1].in_section
                /\ section_type = prev[1].section_type
                /\ current_fund_code = prev[1].current_fund_code
                /\ current_fund_name = prev[1].current_fund_name

\* A transaction line is read OUTSIDE when records have been built already.
TransactionOutside ==
    /\ prev # None /\ ~prev[1].in_section
    /\ line = TxnLine /\ records # <<>>

\* What a header line names: the groups of a fund header, the fixed label
\* for a savings-deposit header, nothing for no line.
Named(h, m) ==
    IF h = "" THEN [name |-> "", code |-> ""]
    ELSE IF m # None THEN [name |-> Strip(m[1].name), code |-> m[1].code]
    ELSE [name |-> "RBC Savings Deposit", code |-> ""]

FundIs(f) == current_fund_name = f.name /\ current_fund_code = f.code

Carries(r, f, alias) ==
    /\ r["Fund code"] = f.code
    /\ r["Fund name"] = f.name
    /\ r["Account"] = alias \o ":" \o f.code

ByMutualBuilder == prev # None /\ prev[1].section_type = Some("mutual") /\ rec # None

\* C5, as stated: inside a section a line of the fund-header shape sets the
\* fund to the header's values and appends no record, and a record of the
\* mutual-fund builder carries the code and name of the fund header read
\* last since the section was entered (empty if none) and the account
\* '<alias>:<that code>'.
FundOfLastFundHeader ==
    /\ (prev # None /\ prev[1].in_section /\ FundHeaderMatch(line) # None) =>
           /\ FundIs(Named(line, FundHeaderMatch(line)))
           /\ records = prev[1].records /\ rec = None
    /\ ByMutualBuilder =>
           Carries(rec[1], Named(hdr_fund, FundHeaderMatch(hdr_fund)),
                   ACCOUNT_MAP[account_number[1]])

\* C5, amended: inside a section a line of the fund-header shape that is
\* no footer line sets the fund to the header's values, any other line
\* holding 'Savings Deposit' and 'RBC' that is no footer line sets the fund
\* name to 'RBC Savings Deposit' and the code to empty, and neither appends
\* a record; a record of the mutual-fund builder carries the code and name
\* set by the line of either kind read last since the section was entered
\* (empty if none) and the account '<alias>:<that code>'.
FundOfLastHeader ==
    /\ (prev # None /\ prev[1].in_section /\ ~IsFooter(line)) =>
           /\ FundHeaderMatch(line) # None =>
                  /\ FundIs(Named(line, FundHeaderMatch(line)))
                  /\ records = prev[1].records /\ rec = None
           /\ (FundHeaderMatch(line) = None /\ IsSavingsHeader(line)) =>
                  /\ FundIs(Named(line, None))
                  /\ records = prev[1].records /\ rec = None
    /\ ByMutualBuilder =>
           Carries(rec[1], Named(hdr_any, FundHeaderMatch(hdr_any)),
                   ACCOUNT_MAP[account_number[1]])

\* The mutual-fund builder returns a record after a savings-deposit header
\* was the header read last in the mutual section.
RecordUnderSavingsHeader == ByMutualBuilder /\ hdr_any = SavingsHeaderLine

GrantCompanion(r, g, alias) ==
    /\ g["Date"] = r["Date"] /\ g["Description"] = r["Description"]
    /\ g["Action"] = r["Action"] /\ g["Value"] = r["Value"]
    /\ g["Account"] = alias \o ":" \o CASH_SUFFIX
    /\ g["Trancfer Account"] = RESP_GRANT
    /\ g["Price"] = "" /\ g["Amount"] = ""
    /\ g["Units you own (post)"] = "" /\ g["Total value ($)"] = ""
    /\ g["Fund code"] = "" /\ g["Fund name"] = ""

\* C6, as stated: a record of the mutual-fund builder whose description
\* begins with 'Grant' or 'PGQC' is followed at once by a second record
\* with the same Date, Description, Action and Value, the account
\* '<alias>:<cash suffix>', the grant account as transfer account, and
\* blank Price, Amount, units, total value, fund code and fund name,
\* whatever the fund code, the empty one included.
GrantYieldsPair ==
    (ByMutualBuilder /\ (StartsWith(rec[1]["Description"], "Grant")
                         \/ StartsWith(rec[1]["Description"], "PGQC"))) =>
        /\ records = prev[1].records \o <<rec[1], records[Len(records)]>>
        /\ GrantCompanion(rec[1], records[Len(records)], ACCOUNT_MAP[account_number[1]])

---------------------------------------------------------------------------
(* Properties of the record builders. *)

\* C7, as stated: with an account number that ACCOUNT_MAP does not hold the
\* builders return no record and raise nothing: no record is built and no
\* document ends in a KeyError.
UnmappedAccountSkips ==
    /\ (pc = "scan" /\ ~HasAlias(account_number)) => records = <<>> /\ rec = None
    /\ \A i \in 1..Len(history) : history[i].error # "KeyError"

\* The line starts with a token of the fused-date shape that names no date.
InvalidDateToken(tokens) ==
    /\ tokens # <<>> /\ DATE_TOKEN_RE(tokens[1])
    /\ Strptime(SubSeq(tokens[1], 1, 3), SubSeq(tokens[1], 4, Len(tokens[1]) - 4),
                SubSeq(tokens[1], Len(tokens[1]) - 3, Len(tokens[1]))) = None

\* C9, as stated: for a line read in a section that starts with a token of
\* the fused-date shape naming no calendar date or no month,
\* extract_date_and_rest yields no date and no builder returns a record.
InvalidDateNoRecord ==
    (prev # None /\ prev[1].in_section /\ InvalidDateToken(Split(line))) =>
        /\ extract_date_and_rest(line).date = None
        /\ rec = None /\ records = prev[1].records

\* The line is dated and its remainder holds a key of ACTION_MAP.
Dated(dr) == Truthy(dr.date) /\ Truthy(dr.rest) /\ ActionGate(dr.rest[1])

\* The line goes to the record builder of its section.
ToBuilder(ln) == ~IsFooter(ln) /\ FundHeaderMatch(ln) = None /\ ~IsSavingsHeader(ln)

LastFive(r, nums, n) ==
    /\ r["Value"] = to_number(nums[n - 4])
    /\ r["Price"] = to_number(nums[n - 3])
    /\ r["Amount"] = to_number(nums[n - 2])
    /\ r["Units you own (post)"] = nums[n - 1]
    /\ r["Total value ($)"] = nums[n]
    /\ r["Account"] # "" /\ r["Trancfer Account"] # ""

Shaped(r, nums) ==
    IF Len(nums) >= 5 THEN r # None /\ LastFive(r[1], nums, Len(nums))
    ELSE r = None

\* C10, as stated: for a dated line with an action keyword the mutual-fund
\* builder returns one record built from the last five numeric tokens when
\* there are at least five, no record when there are fewer, and raises no
\* error.
ActivityFromLastFive ==
    /\ (/\ prev # None /\ prev[1].section_type = Some("mutual")
        /\ ToBuilder(line) /\ Dated(extract_date_and_rest(line))) =>
           Shaped(rec, split_description_and_numbers(
                           extract_date_and_rest(line).rest[1]).nums)
    /\ \A i \in 1..Len(history) :
           ~(/\ history[i].error # "" /\ history[i].section = Some("mutual")
             /\ Dated(extract_date_and_rest(history[i].line)))

---------------------------------------------------------------------------
(* Properties of the batch loop. *)

RECURSIVE Collected(_)
\* The record lists of the calls that returned, in the order of the calls.
Collected(h) ==
    IF h = <<>> THEN <<>>
    ELSE Collected(SubSeq(h, 1, Len(h) - 1))
             \o (IF h[Len(h)].error = "" THEN h[Len(h)].recs ELSE <<>>)

Statements == {f \in BatchFiles : EndsWith(Lower(f), ".pdf")}

\* C8: a document is scanned past the search of its first page only with
\* an account number found; whatever calls failed, every statement of the
\* directory has been processed when the loop ends; and the collected
\* records are the record lists of the calls that returned, in processing
\* order, with nothing of a call that raised.
BatchIsolation ==
    /\ (pc = "scan" \/ (pc = "pages" /\ page_number >= 1)) => account_number # None
    /\ \A i \in 1..Len(history) :
           history[i].error = "ValueError" => history[i].recs = <<>>
    /\ all_records = Collected(history)
    /\ Len(log) = Cardinality({i \in 1..Len(history) : history[i].error # ""})
    /\ pc = "done" =>
           /\ Len(history) = Cardinality(Statements)
           /\ {history[i].file : i \in 1..Len(history)} = Statements

\* The loop has ended; a call that had built records raised, and a later
\* call returned records.
FailureThenRecords ==
    /\ pc = "done"
    /\ \E i, j \in 1..Len(history) :
           /\ i < j
           /\ history[i].error # "" /\ history[i].recs # <<>>
           /\ history[j].error = "" /\ history[j].recs # <<>>

---------------------------------------------------------------------------
(* More properties of the record builders. *)

LastTwo(r, nums, n, alias) ==
    /\ r["Value"] = to_number(nums[n - 1])
    /\ r["Total value ($)"] = to_number(nums[n])
    /\ r["Price"] = "" /\ r["Amount"] = ""
    /\ r["Units you own (post)"] = "" /\ r["Fund code"] = ""
    /\ r["Account"] = alias \o ":SavingsDeposit"

SavingsShaped(r, nums, alias) ==
    IF Len(nums) >= 2 THEN r # None /\ LastTwo(r[1], nums, Len(nums), alias)
    ELSE r = None

\* C11, as stated: for a dated line with an action keyword the savings
\* builder returns one record built from the last two numeric tokens, with
\* blank price, amount, units and fund code and the account
\* '<alias>:SavingsDeposit', when there are at least two, and no record
\* when there are fewer; it does not raise; and every record appended in
\* the savings section has an empty fund code.
SavingsFromLastTwo ==
    /\ (/\ prev # None /\ prev[1].section_type = Some("savings")
        /\ ToBuilder(line) /\ Dated(extract_date_and_rest(line))) =>
           SavingsShaped(rec,
                         split_description_and_numbers(
                             extract_date_and_rest(line).rest[1]).nums,
                         ACCOUNT_MAP[account_number[1]])
    /\ (prev # None /\ prev[1].section_type = Some("savings")) =>
           \A r \in NewRecords : r["Fund code"] = ""
    /\ \A i \in 1..Len(history) :
           ~(/\ history[i].error # "" /\ history[i].section = Some("savings")
             /\ Dated(extract_date_and_rest(history[i].line)))

\* C12: a record returned by either builder has the reinvestment account
\* as transfer account exactly when its action is the reinvestment
\* category, and '<alias>:<cash suffix>' otherwise.
TransferByAction ==
    rec # None =>
        /\ (rec[1]["Trancfer Account"] = REINVEST_TRANSFER_ACCOUNT)
               <=> (rec[1]["Action"] = "Reinvest")
        /\ rec[1]["Action"] # "Reinvest" =>
               rec[1]["Trancfer Account"]
                   = ACCOUNT_MAP[account_number[1]] \o ":" \o CASH_SUFFIX

\* The savings builder returns a reinvestment.
ReinvestmentInSavings ==
    /\ prev # None /\ prev[1].section_type = Some("savings")
    /\ rec # None /\ rec[1]["Action"] = "Reinvest"

---------------------------------------------------------------------------
(* Documents do not affect each other. *)

FreshCall ==
    /\ IsOutside /\ records = <<>> /\ account_number = None
    /\ lines = <<>> /\ nlines = 0 /\ ~eof /\ page_number = 0

\* C13: whatever was processed before and however it ended, a call of
\* extract_from_pdf_text starts from the same locals (no section, fund,
\* pending record, account number or record), the configuration is as it
\* was loaded, the account number a scan uses was found on the first page
\* of the document being scanned, and the records of a call are records
\* of its own document.
NoLeakBetweenDocuments ==
    /\ ACTION_MAP = DefaultActions
    /\ pc \in {"main", "done", "pages"} /\ (pc = "pages" => page_number = 0)
           => FreshCall
    /\ (pc = "scan" /\ page_number = 1 /\ prev = None) =>
           \E i \in 1..(Len(lines) - 1) :
               /\ Contains(lines[i], AccountLabel)
               /\ SearchAccountDigits(lines[i + 1]) = account_number
    /\ \A i \in 1..Len(history) : \A j \in 1..Len(history[i].recs) :
           EndsWith(history[i].recs[j]["Description"], " src = " \o history[i].file)
    /\ \A j \in 1..Len(records) : EndsWith(records[j]["Description"], " src = " \o fname)

\* A call is about to start after a call that ended inside a section with
\* records built.
CallAfterOpenSection ==
    /\ pc = "pages" /\ page_number = 0 /\ Len(history) = 1
    /\ history[1].section # None /\ history[1].recs # <<>>

---------------------------------------------------------------------------
(* The pending slot. *)

\* The record appended last before the line read last is a return of
\* capital.
AfterCapitalRow ==
    /\ prev # None /\ prev[1].in_section
    /\ prev[1].records # <<>>
    /\ StartsWith(prev[1].records[Len(prev[1].records)]["Description"],
                  "ReturnofCapital")

HasUnitPrice(r, price) ==
    "Unit price ($)" \in DOMAIN r /\ r["Unit price ($)"] = price

---------------------------------------------------------------------------
(* Properties of the functions of strings. *)

DigitOrComma(c) == c \in {"0", "1", "2", "3", "4", "5", "6", "7", "8", "9", ","}

\* b is digits and commas, at least one, with an optional decimal part.
PlainNumber(b) ==
    \E k \in 1..Len(b) :
        /\ \A i \in 1..k : DigitOrComma(Ch(b, i))
        /\ \/ k = Len(b)
           \/ /\ Ch(b, k + 1) = "." /\ k + 2 <= Len(b)
              /\ \A i \in (k + 2)..Len(b) : DigitOrComma(Ch(b, i)) /\ Ch(b, i) # ","

NumberShaped(t) ==
    PlainNumber(t) \/ (Len(t) > 1 /\ Ch(t, 1) = "-" /\ PlainNumber(SubSeq(t, 2, Len(t))))

SplitsInTwo(toks, description, nums) ==
    /\ description = Join(Split(description), " ")
    /\ Split(description) \o nums = toks
    /\ \A i \in 1..Len(Split(description)) : ~NumberShaped(Split(description)[i])
    /\ nums # <<>> => NumberShaped(nums[1])

\* C15: the description is the single-space join of the tokens before the
\* first token shaped as a number, the numeric tokens are that token and
\* all that follow it, whatever their shape; description tokens and
\* numeric tokens together are the tokens of the string, and no
\* description token is shaped as a number.
DescriptionThenNumbers ==
    pc = "split" =>
        /\ SplitsInTwo(Split(line), rec[1].description, rec[1].nums)
        /\ line = "Contribution 200.00 3,301.22" =>
               rec[1] = [description |-> "Contribution",
                         nums |-> <<"200.00", "3,301.22">>]

\* A token that is not shaped as a number follows the first number.
WordAfterNumber ==
    /\ pc = "split" /\ Len(rec[1].nums) = 2
    /\ Len(Split(rec[1].description)) = 1
    /\ ~NumberShaped(rec[1].nums[2])

RECURSIVE Squeezed(_)
\* s without spaces and hyphens, in lower case.
Squeezed(s) ==
    IF s = "" THEN ""
    ELSE IF Ch(s, 1) \in {" ", "-"} THEN Squeezed(SubSeq(s, 2, Len(s)))
    ELSE LowerChar(Ch(s, 1)) \o Squeezed(SubSeq(s, 2, Len(s)))

KeyMatches(i) == Contains(Squeezed(line), Squeezed(ACTION_MAP[i][1]))

\* C16: match_action returns the action of the first key of the table, in
\* its order, whose form without spaces and hyphens and in lower case is
\* part of the keyword's, and the empty string when there is no such key.
FirstKeyWins ==
    pc = "match" =>
        \/ /\ rec[1] = ""
           /\ \A i \in 1..Len(ACTION_MAP) : ~KeyMatches(i)
        \/ \E i \in 1..Len(ACTION_MAP) :
               /\ KeyMatches(i) /\ rec[1] = ACTION_MAP[i][2]
               /\ \A j \in 1..(i - 1) : ~KeyMatches(j)

\* Two keys of the table match the keyword and name different actions.
TwoKeysMatch ==
    /\ pc = "match"
    /\ \E i, j \in 1..Len(ACTION_MAP) :
           /\ i < j /\ KeyMatches(i) /\ KeyMatches(j)
           /\ ACTION_MAP[i][2] # ACTION_MAP[j][2]
           /\ rec[1] = ACTION_MAP[i][2]

---------------------------------------------------------------------------
(* Letter case of the month. *)

UpperChar(c) ==
    IF c \in LowerChars THEN CHOOSE u \in UpperChars : ToLower[u] = c ELSE c

\* The line starts with a month abbreviation in some letter case.
MonthInSomeCase(ln) == Len(ln) >= 3 /\ MonthIndex(Lower(SubSeq(ln, 1, 3))) > 0

\* The line with its first three letters written as 'Jan' .. 'Dec' are.
Capitalised(ln) ==
    UpperChar(Ch(ln, 1)) \o Lower(SubSeq(ln, 2, 3)) \o SubSeq(ln, 4, Len(ln))

\* C17, as stated: a line read in a section whose month part is a month
\* abbreviation in another letter case than 'Jan' .. 'Dec' yields no date
\* and no record.
MonthCaseSensitive ==
    (/\ prev # None /\ prev[1].in_section
     /\ MonthInSomeCase(line) /\ line # Capitalised(line)) =>
        /\ extract_date_and_rest(line).date = None
        /\ rec = None /\ records = prev[1].records

\* C17, amended: the month abbreviation is matched in any letter case; a
\* line read in a section whose first three letters are a month
\* abbreviation in some letter case yields the date and the remainder, and
\* the scanner the record and the record list, that the line with the
\* month written as 'Jan' .. 'Dec' yields in the same state.
MonthInAnyCase ==
    (prev # None /\ prev[1].in_section /\ MonthInSomeCase(line)) =>
        /\ extract_date_and_rest(line) = extract_date_and_rest(Capitalised(line))
        /\ rec = ScanStep(prev[1], Capitalised(line), fname, account_number).rec
        /\ records = ScanStep(prev[1], Capitalised(line), fname, account_number).records

\* A fused date with a lower-case month, read in the mutual section, has
\* given a record with the ISO date; the three-part date in capitals
\* before it as well.
LowerCaseMonthRecord ==
    /\ prev # None /\ prev[1].section_type = Some("mutual")
    /\ line = LowerMonthLine
    /\ Len(records) = 2
    /\ records[1]["Date"] = "2025-01-10" /\ records[2]["Date"] = "2025-01-10"
    /\ StartsWith(records[1]["Description"], "Contribution")
    /\ prev[1].records = <<records[1]>>

---------------------------------------------------------------------------
(* The action of a record. *)

CanonicalActions == {ACTION_MAP[i][2] : i \in 1..Len(ACTION_MAP)}

\* C18, as stated: a record returned by a builder for a line read in a
\* section has a non-empty Action that is one of the values of ACTION_MAP.
ActionAlwaysResolved ==
    (prev # None /\ prev[1].in_section /\ rec # None) =>
        /\ rec[1]["Action"] # ""
        /\ rec[1]["Action"] \in CanonicalActions

---------------------------------------------------------------------------
(* Section kinds. *)

IsMarker(ln) == Contains(ln, MutualMarker) \/ Contains(ln, SavingsMarker)

\* What the builder of section kind st returns for the line.
BuilderOf(st, ln, fund_code, fund_name) ==
    IF st = Some("mutual")
    THEN parse_activity_line(ln, fund_code, fund_name, fname, account_number).val
    ELSE parse_savings_line(ln, IF fund_name # "" THEN fund_name ELSE SavingsLabel,
                            fname, account_number).val

\* C20: a line read in a section leaves the section kind as it was unless
\* it is a footer, which ends the section; a marker line of either kind
\* read in a section changes nothing and gives no record; and a line that
\* goes to a builder goes to the builder of the kind the section had
\* before the line.
NoDirectSwitch ==
    (pc = "scan" /\ prev # None /\ prev[1].in_section) =>
        /\ IF IsFooter(line) THEN ~in_section /\ section_type = None
           ELSE in_section /\ section_type = prev[1].section_type
        /\ (IsMarker(line) /\ ~IsFooter(line)) =>
               /\ rec = None /\ records = prev[1].records
               /\ current_fund_code = prev[1].current_fund_code
               /\ current_fund_name = prev[1].current_fund_name
        /\ ToBuilder(line) =>
               rec = BuilderOf(prev[1].section_type, line,
                               prev[1].current_fund_code, prev[1].current_fund_name)

\* The savings marker has been read in a mutual section in which a record
\* had been built.
MarkerOfOtherSection ==
    /\ pc = "scan" /\ prev # None
    /\ prev[1].section_type = Some("mutual") /\ prev[1].records # <<>>
    /\ line = SavingsMarker
    /\ section_type = Some("mutual")

=============================================================================
